---- MODULE Spec2Model ----
(***************************************************************************)
(* Incident reconciliation: the Incident entity and its lifecycle, the     *)
(* file-backed and the managed-table-backed stores, and the service that   *)
(* turns Datadog alerts into incidents.                                    *)
(*                                                                         *)
(* Python values.  A value that may be None is a sequence of length at     *)
(* most one: None is <<>>, the string "abc" is <<"abc">>, the empty string *)
(* is <<"">>.  A datetime is the pair <<second, microsecond>>; an ISO-8601 *)
(* string is the token sequence <<"T", second>> or <<"T", second, usec>>.  *)
(* Identifiers (uuid4 strings) are natural numbers, never reused.  severity*)
(* is an integer, status a string, tags and resolution_steps are sequences *)
(* of strings: none of these is ever None or "".                           *)
(***************************************************************************)
EXTENDS Integers, Sequences, FiniteSets, TLC

VARIABLES
    storeKind,       \* which store the service is wired to: "json" | "dynamodb"
    datadog_client,  \* "none" when the service was built without a client,
                     \* else "mock" (MockDatadogClient) or "datadog"
    file,            \* incidents.json: the sequence of records last written
    fileState,       \* "absent" | "valid" | "malformed" (not JSON any more:
                     \* file keeps what was written, none of it readable)
    table,           \* the DynamoDB table: its items
    mem,             \* the Incident objects callers hold, mem[i].id = i
    nextId,          \* the next fresh uuid
    clock,           \* the wall clock
    saved,           \* saved[i]: the incident as it was when last passed to save
    raised,          \* the exception the most recent call raised, "" if none
    diagnostic,      \* what the most recent call printed, "" if nothing
    saving,          \* saving[p]: the save invocation p is in the middle of
    syncing          \* syncing[p]: the sync invocation p is in the middle of

vars == <<storeKind, datadog_client, file, fileState, table, mem, nextId,
          clock, saved, raised, diagnostic, saving, syncing>>

\* ---------------------------------------------------------------- bounds
MaxIncidents == 2
MaxClock == 1
MaxAlerts == 2

\* ---------------------------------------------------------- Python values
None == <<>>
Str(s) == <<s>>
EmptyStr == <<"">>
Truthy(v) == v # None /\ v # EmptyStr
Get(d, k, default) == IF k \in DOMAIN d THEN d[k] ELSE default

\* datetime.now(): the wall clock, two ticks to the second
Now == <<clock \div 2, (clock % 2) * 500000>>

\* isoformat that always stops at the second
isoformat_seconds(dt) == <<"T", dt[1]>>

isoformat(dt) ==
    IF dt[2] = 0 THEN <<"T", dt[1]>> ELSE <<"T", dt[1], dt[2]>>

fromisoformat(s) == <<s[2], IF Len(s) = 3 THEN s[3] ELSE 0>>

\* ------------------------------------------------------------- Incident
\* a constructor that stamps the incident when it is first acknowledged
Incident_undated(title, description, severity, source, datadog_alert_id, uuid, now) ==
    [id |-> uuid,
     title |-> title,
     description |-> description,
     severity |-> severity,
     source |-> source,
     datadog_alert_id |-> datadog_alert_id,
     status |-> "detected",
     assignee |-> None,
     detected_at |-> None,
     acknowledged_at |-> None,
     resolved_at |-> None,
     root_cause |-> None,
     resolution_steps |-> <<>>,
     tags |-> <<>>]

Incident(title, description, severity, source, datadog_alert_id, uuid, now) ==
    [id |-> uuid,
     title |-> title,
     description |-> description,
     severity |-> severity,
     source |-> source,
     datadog_alert_id |-> datadog_alert_id,
     status |-> "detected",
     assignee |-> None,
     detected_at |-> now,
     acknowledged_at |-> None,
     resolved_at |-> None,
     root_cause |-> None,
     resolution_steps |-> <<>>,
     tags |-> <<>>]

\* acknowledge without its status guard
acknowledge_ok_unguarded(self) == TRUE

\* acknowledge guarded against "resolved" only
acknowledge_ok_not_resolved(self) == self.status # "resolved"

\* acknowledge: the guard and the three assignments
acknowledge_ok(self) == self.status = "detected"

acknowledge(self, assignee, now) ==
    [self EXCEPT !.status = "acknowledged",
                 !.assignee = assignee,
                 !.acknowledged_at = now]

\* resolve without its status guard
resolve_ok_unguarded(self) == TRUE

resolve_ok(self) == self.status \in {"detected", "acknowledged"}

\* a resolve that stamps acknowledged_at when it finds none
resolve_stamping(self, root_cause, resolution_steps, now) ==
    [self EXCEPT !.status = "resolved",
                 !.root_cause = root_cause,
                 !.resolution_steps = resolution_steps,
                 !.resolved_at = now,
                 !.acknowledged_at = IF @ = None THEN now ELSE @]

resolve(self, root_cause, resolution_steps, now) ==
    [self EXCEPT !.status = "resolved",
                 !.root_cause = root_cause,
                 !.resolution_steps = resolution_steps,
                 !.resolved_at = now]

to_dict(self) ==
    [id |-> self.id,
     title |-> self.title,
     description |-> self.description,
     severity |-> self.severity,
     source |-> self.source,
     datadog_alert_id |-> self.datadog_alert_id,
     status |-> self.status,
     assignee |-> self.assignee,
     detected_at |-> IF self.detected_at # None
                     THEN isoformat(self.detected_at) ELSE None,
     acknowledged_at |-> IF self.acknowledged_at # None
                         THEN isoformat(self.acknowledged_at) ELSE None,
     resolved_at |-> IF self.resolved_at # None
                     THEN isoformat(self.resolved_at) ELSE None,
     root_cause |-> self.root_cause,
     resolution_steps |-> self.resolution_steps,
     tags |-> self.tags]

\* a from_dict that keeps the identifier the constructor drew
from_dict_fresh_id(data, uuid, now) ==
    LET incident == Incident(data.title, data.description, data.severity,
                             Get(data, "source", Str("manual")),
                             Get(data, "datadog_alert_id", None), uuid, now)
    IN [incident EXCEPT
          !.status = data.status,
          !.assignee = Get(data, "assignee", None),
          !.tags = Get(data, "tags", <<>>),
          !.root_cause = Get(data, "root_cause", None),
          !.resolution_steps = Get(data, "resolution_steps", <<>>),
          !.detected_at = IF Truthy(Get(data, "detected_at", None))
                          THEN fromisoformat(data.detected_at)
                          ELSE incident.detected_at,
          !.acknowledged_at = IF Truthy(Get(data, "acknowledged_at", None))
                              THEN fromisoformat(data.acknowledged_at)
                              ELSE incident.acknowledged_at,
          !.resolved_at = IF Truthy(Get(data, "resolved_at", None))
                          THEN fromisoformat(data.resolved_at)
                          ELSE incident.resolved_at]

\* from_dict builds a fresh Incident (drawing a uuid and reading the clock)
\* and then overwrites its fields from the record.
from_dict(data, uuid, now) ==
    LET incident == Incident(data.title, data.description, data.severity,
                             Get(data, "source", Str("manual")),
                             Get(data, "datadog_alert_id", None), uuid, now)
    IN [incident EXCEPT
          !.id = data.id,
          !.status = data.status,
          !.assignee = Get(data, "assignee", None),
          !.tags = Get(data, "tags", <<>>),
          !.root_cause = Get(data, "root_cause", None),
          !.resolution_steps = Get(data, "resolution_steps", <<>>),
          !.detected_at = IF Truthy(Get(data, "detected_at", None))
                          THEN fromisoformat(data.detected_at)
                          ELSE incident.detected_at,
          !.acknowledged_at = IF Truthy(Get(data, "acknowledged_at", None))
                              THEN fromisoformat(data.acknowledged_at)
                              ELSE incident.acknowledged_at,
          !.resolved_at = IF Truthy(Get(data, "resolved_at", None))
                          THEN fromisoformat(data.resolved_at)
                          ELSE incident.resolved_at]

\* ------------------------------------------------ sequence helpers
RECURSIVE SelectIndex(_, _, _)
SelectIndex(s, id, i) ==
    IF i > Len(s) THEN 0
    ELSE IF s[i].id = id THEN i ELSE SelectIndex(s, id, i + 1)

\* save that never looks for the identifier
Upsert_append(s, x) == Append(s, x)

Upsert(s, x) ==
    LET i == SelectIndex(s, x.id, 1)
    IN IF i # 0 THEN [s EXCEPT ![i] = x] ELSE Append(s, x)

\* ------------------------------------------- file-backed IncidentStore
\* The uuid and the clock reading from_dict draws are overwritten by the
\* record's id and, when present, its detected_at.
\* a load_all that finds nothing
json_load_all_empty(f, fs, uuid, now) == <<>>

json_load_all(f, fs, uuid, now) ==
    IF fs = "absent" THEN <<>>
    ELSE IF fs = "malformed" THEN <<>>   \* json.JSONDecodeError, caught
    ELSE [i \in 1..Len(f) |-> from_dict(f[i], uuid, now)]

write_to_file(incidents) ==
    [i \in 1..Len(incidents) |-> to_dict(incidents[i])]

json_save(f, fs, incident, uuid, now) ==
    write_to_file(Upsert(json_load_all(f, fs, uuid, now), incident))

\* a save that writes the incident alone
save_write_incident_only(incidents, incident) == write_to_file(<<incident>>)

\* the second half of save: replace or append in the collection load_all
\* answered, then write the whole collection
save_write(incidents, incident) == write_to_file(Upsert(incidents, incident))

json_find_by_id(f, fs, incident_id, uuid, now) ==
    LET incidents == json_load_all(f, fs, uuid, now)
        i == SelectIndex(incidents, incident_id, 1)
    IN IF i # 0 THEN <<incidents[i]>> ELSE None

json_find_by_status(f, fs, status, uuid, now) ==
    SelectSeq(json_load_all(f, fs, uuid, now), LAMBDA inc : inc.status = status)

\* IncidentStore defines no find_by_datadog_alert_id: the attribute lookup
\* raises before anything is read
json_find_by_datadog_alert_id(f, fs, alert_id, uuid, now) ==
    [raised |-> "AttributeError", found |-> None]

\* --------------------------------------------- managed-table DynamoDBStore
\* v if v is not None else "": id, severity, status and the two lists are
\* never None, so the comprehension leaves them as they are.
ToItem(d) ==
    LET S(v) == IF v # None THEN v ELSE EmptyStr
    IN [id |-> d.id,
        title |-> S(d.title),
        description |-> S(d.description),
        severity |-> d.severity,
        source |-> S(d.source),
        datadog_alert_id |-> S(d.datadog_alert_id),
        status |-> d.status,
        assignee |-> S(d.assignee),
        detected_at |-> S(d.detected_at),
        acknowledged_at |-> S(d.acknowledged_at),
        resolved_at |-> S(d.resolved_at),
        root_cause |-> S(d.root_cause),
        resolution_steps |-> d.resolution_steps,
        tags |-> d.tags]

\* v if v != "" else None
FromItem(item) ==
    LET U(v) == IF v # EmptyStr THEN v ELSE None
    IN [id |-> item.id,
        title |-> U(item.title),
        description |-> U(item.description),
        severity |-> item.severity,
        source |-> U(item.source),
        datadog_alert_id |-> U(item.datadog_alert_id),
        status |-> item.status,
        assignee |-> U(item.assignee),
        detected_at |-> U(item.detected_at),
        acknowledged_at |-> U(item.acknowledged_at),
        resolved_at |-> U(item.resolved_at),
        root_cause |-> U(item.root_cause),
        resolution_steps |-> item.resolution_steps,
        tags |-> item.tags]

\* put_item replaces the item with the same key; the table is kept in
\* insertion order, which is the order scans and queries answer in.
dynamo_save(t, incident) == Upsert(t, ToItem(to_dict(incident)))

dynamo_load_all(t, uuid, now) ==
    [i \in 1..Len(t) |-> from_dict(FromItem(t[i]), uuid, now)]

dynamo_find_by_id(t, incident_id, uuid, now) ==
    LET i == SelectIndex(t, incident_id, 1)
    IN IF i # 0 THEN <<from_dict(FromItem(t[i]), uuid, now)>> ELSE None

dynamo_find_by_status(t, status, uuid, now) ==
    LET items == SelectSeq(t, LAMBDA item : item.status = status)
    IN [i \in 1..Len(items) |-> from_dict(FromItem(items[i]), uuid, now)]

\* a lookup that never matches
dynamo_find_by_datadog_alert_id_miss(t, alert_id, uuid, now) == None

dynamo_find_by_datadog_alert_id(t, alert_id, uuid, now) ==
    IF ~Truthy(alert_id) THEN None
    ELSE LET items == SelectSeq(t, LAMBDA item : item.datadog_alert_id = alert_id)
         IN IF items # <<>>
            THEN <<from_dict(FromItem(items[1]), uuid, now)>>
            ELSE None

\* ------------------------------------------------------- alert sources
\* MockDatadogClient answers its mock_alerts; DatadogClient keeps the
\* monitors in state Alert or Warn and answers [] when anything raises.
\* DatadogClient without its try/except
get_active_alerts_uncaught(client, response) ==
    IF client = "mock"
    THEN [raised |-> "", alerts |-> response.monitors, diagnostic |-> ""]
    ELSE IF ~response.ok
    THEN [raised |-> "ApiException", alerts |-> <<>>, diagnostic |-> ""]
    ELSE [raised |-> "",
          alerts |-> SelectSeq(response.monitors,
                      LAMBDA monitor : Get(monitor, "state", None) \in
                                         {Str("Alert"), Str("Warn")}),
          diagnostic |-> ""]

get_active_alerts(client, response) ==
    IF client = "mock"
    THEN [raised |-> "", alerts |-> response.monitors, diagnostic |-> ""]
    ELSE IF ~response.ok
    THEN [raised |-> "", alerts |-> <<>>,
          diagnostic |-> "Error fetching alerts"]
    ELSE [raised |-> "",
          alerts |-> SelectSeq(response.monitors,
                      LAMBDA monitor : Get(monitor, "state", None) \in
                                         {Str("Alert"), Str("Warn")}),
          diagnostic |-> ""]

\* ------------------------------------------------------ IncidentService
\* a table with "Warn" left out
severity_map_no_warn(alert_state) ==
    CASE alert_state = Str("Alert") -> <<5>>
      [] alert_state = Str("No Data") -> <<2>>
      [] OTHER -> None

severity_map(alert_state) ==
    CASE alert_state = Str("Alert") -> <<5>>
      [] alert_state = Str("Warn") -> <<3>>
      [] alert_state = Str("No Data") -> <<2>>
      [] OTHER -> None

\* a conversion that leaves the alert's tags behind
create_incident_from_alert_untagged(alert, uuid, now) ==
    LET alert_state == Get(alert, "state", Str("Alert"))
        severity == IF severity_map(alert_state) # None
                    THEN severity_map(alert_state)[1] ELSE 4
    IN Incident(Get(alert, "name", Str("Unknown Alert")),
                Get(alert, "message", Str("No description")),
                severity, Str("datadog"), Get(alert, "id", None), uuid, now)

create_incident_from_alert(alert, uuid, now) ==
    LET alert_state == Get(alert, "state", Str("Alert"))
        severity == IF severity_map(alert_state) # None
                    THEN severity_map(alert_state)[1] ELSE 4
        incident == Incident(Get(alert, "name", Str("Unknown Alert")),
                             Get(alert, "message", Str("No description")),
                             severity, Str("datadog"),
                             Get(alert, "id", None), uuid, now)
    IN IF Get(alert, "tags", <<>>) # <<>>
       THEN [incident EXCEPT !.tags = Get(alert, "tags", <<>>)]
       ELSE incident

\* a loop that brings an existing incident up to date with its alert
RECURSIVE sync_loop_resync(_, _, _, _, _)
sync_loop_resync(alerts, t, uuid, now, new_incidents) ==
    IF alerts = <<>>
    THEN [table |-> t, uuid |-> uuid, new_incidents |-> new_incidents]
    ELSE LET alert == Head(alerts)
             existing == dynamo_find_by_datadog_alert_id(t, alert.id, uuid, now)
             incident == create_incident_from_alert(alert, uuid, now)
         IN IF existing # None
            THEN sync_loop_resync(Tail(alerts),
                   dynamo_save(t, [existing[1] EXCEPT
                                     !.title = incident.title,
                                     !.severity = incident.severity]),
                   uuid, now, new_incidents)
            ELSE sync_loop_resync(Tail(alerts), dynamo_save(t, incident),
                                  uuid + 1, now, Append(new_incidents, incident))

\* a loop that saves the new incident and leaves it out of its result
RECURSIVE sync_loop_unreturned(_, _, _, _, _)
sync_loop_unreturned(alerts, t, uuid, now, new_incidents) ==
    IF alerts = <<>>
    THEN [table |-> t, uuid |-> uuid, new_incidents |-> new_incidents]
    ELSE LET alert == Head(alerts)
             existing == dynamo_find_by_datadog_alert_id(t, alert.id, uuid, now)
         IN IF existing # None
            THEN sync_loop_unreturned(Tail(alerts), t, uuid, now, new_incidents)
            ELSE LET incident == create_incident_from_alert(alert, uuid, now)
                 IN sync_loop_unreturned(Tail(alerts), dynamo_save(t, incident),
                                         uuid, now, new_incidents)

\* The for loop of sync_datadog_alerts over a managed table.
RECURSIVE sync_loop(_, _, _, _, _)
sync_loop(alerts, t, uuid, now, new_incidents) ==
    IF alerts = <<>>
    THEN [table |-> t, uuid |-> uuid, new_incidents |-> new_incidents]
    ELSE LET alert == Head(alerts)
             existing == dynamo_find_by_datadog_alert_id(t, alert.id, uuid, now)
         IN IF existing # None
            THEN sync_loop(Tail(alerts), t, uuid, now, new_incidents)
            ELSE LET incident == create_incident_from_alert(alert, uuid, now)
                 IN sync_loop(Tail(alerts), dynamo_save(t, incident),
                              uuid + 1, now, Append(new_incidents, incident))

\* ------------------------------------------------------------- inputs
Alert1 == [id |-> Str("alert-001"), name |-> Str("High CPU Usage"),
           message |-> Str("CPU usage is above 90% on server-01"),
           state |-> Str("Alert"), tags |-> <<"env:production", "team:backend">>]
Alert1Changed == [id |-> Str("alert-001"), name |-> Str("CPU recovering"),
                  message |-> Str("CPU usage is above 70% on server-01"),
                  state |-> Str("Warn"), tags |-> <<>>]
Alert2 == [id |-> Str("alert-002"), state |-> Str("No Data")]
Alert2NoState == [id |-> Str("alert-002"), name |-> Str("Pool Exhausted")]
Alert3 == [id |-> Str("alert-003"), name |-> Str("API Response Time Degraded"),
           message |-> Str("P95 response time is above 500ms"),
           state |-> Str("OK"), tags |-> <<"env:production">>]

AlertValues == {Alert1, Alert1Changed, Alert2, Alert2NoState, Alert3}

AlertLists == UNION {[1..n -> AlertValues] : n \in 0..MaxAlerts}

RootCauses == {Str("Fixed"), EmptyStr}

\* the invocations that may run save side by side
Invocations == {1, 2}

\* what monitors_api.list_monitors() does: it answers monitors or it raises
Responses ==
    {[ok |-> FALSE, monitors |-> <<>>]} \cup
    {[ok |-> TRUE, monitors |-> alerts] : alerts \in AlertLists}

\* ---------------------------------------------------------------- state
Stored == IF storeKind = "json" THEN file ELSE table

Init ==
    /\ storeKind \in {"json", "dynamodb"}
    /\ datadog_client \in {"none", "mock", "datadog"}
    /\ file = <<>>
    /\ fileState = "absent"
    /\ table = <<>>
    /\ mem = <<>>
    /\ nextId = 1
    /\ clock \in 0..MaxClock
    /\ saved = <<>>
    /\ raised = ""
    /\ diagnostic = ""
    /\ saving = [p \in Invocations |-> None]
    /\ syncing = [p \in Invocations |-> None]

\* time passes
Tick ==
    /\ clock < MaxClock
    /\ clock' = clock + 1
    /\ UNCHANGED <<storeKind, datadog_client, file, fileState, table, mem,
                   nextId, saved, raised, diagnostic, saving, syncing>>

\* a caller constructs an Incident directly
Create ==
    /\ nextId <= MaxIncidents
    /\ mem' = Append(mem, Incident(Str("Test"), Str("Desc"), 3, Str("manual"),
                                   None, nextId, Now))
    /\ nextId' = nextId + 1
    /\ raised' = ""
    /\ diagnostic' = ""
    /\ UNCHANGED <<storeKind, datadog_client, file, fileState, table, clock,
                   saved, saving, syncing>>

AcknowledgeAt(i) ==
    /\ IF acknowledge_ok(mem[i])
       THEN /\ mem' = [mem EXCEPT ![i] = acknowledge(mem[i], Str("John"), Now)]
            /\ raised' = ""
       ELSE /\ mem' = mem
            /\ raised' = "ValueError"
    /\ diagnostic' = ""
    /\ UNCHANGED <<storeKind, datadog_client, file, fileState, table,
                   nextId, clock, saved, saving, syncing>>

Acknowledge == \E i \in 1..Len(mem) : AcknowledgeAt(i)

ResolveAt(i, root_cause) ==
    /\ IF resolve_ok(mem[i])
       THEN /\ mem' = [mem EXCEPT
                         ![i] = resolve(mem[i], root_cause, <<"Step 1">>, Now)]
            /\ raised' = ""
       ELSE /\ mem' = mem
            /\ raised' = "ValueError"
    /\ diagnostic' = ""
    /\ UNCHANGED <<storeKind, datadog_client, file, fileState, table,
                   nextId, clock, saved, saving, syncing>>

Resolve == \E i \in 1..Len(mem), root_cause \in RootCauses : ResolveAt(i, root_cause)

\* store.save(incident) on whichever store the service is wired to
SaveAt(i) ==
    /\ IF storeKind = "json"
       THEN /\ file' = json_save(file, fileState, mem[i], nextId, Now)
            /\ fileState' = "valid"
            /\ table' = table
       ELSE /\ table' = dynamo_save(table, mem[i])
            /\ UNCHANGED <<file, fileState>>
    /\ saved' = [j \in 1..Len(mem) |->
                   IF j = i THEN <<mem[i]>>
                   ELSE IF j <= Len(saved) THEN saved[j] ELSE None]
    /\ raised' = ""
    /\ diagnostic' = ""
    /\ UNCHANGED <<storeKind, datadog_client, mem, nextId, clock, saving,
                   syncing>>

Save == \E i \in 1..Len(mem) : SaveAt(i)

\* sync_datadog_alerts without the check for a client: None has no
\* get_active_alerts
sync_datadog_alerts_unchecked(client, kind, alerts, t, uuid, now) ==
    IF client = "none"
    THEN [raised |-> "AttributeError", table |-> t, uuid |-> uuid,
          new_incidents |-> <<>>, diagnostic |-> ""]
    ELSE IF kind = "json"
    THEN [raised |-> IF alerts = <<>> THEN "" ELSE "AttributeError",
          table |-> t, uuid |-> uuid, new_incidents |-> <<>>,
          diagnostic |-> ""]
    ELSE [raised |-> "", diagnostic |-> ""]
           @@ sync_loop(alerts, t, uuid, now, <<>>)

\* sync_datadog_alerts as a function of the service's wiring, the alerts
\* get_active_alerts() answers, the table, the next uuid and the clock
sync_datadog_alerts(client, kind, alerts, t, uuid, now) ==
    IF client = "none"
    THEN [raised |-> "", table |-> t, uuid |-> uuid, new_incidents |-> <<>>,
          diagnostic |-> "No Datadog client configured"]
    ELSE IF kind = "json"
    THEN \* IncidentStore has no find_by_datadog_alert_id: the first
         \* iteration of the loop raises AttributeError
         [raised |-> IF alerts = <<>> THEN "" ELSE "AttributeError",
          table |-> t, uuid |-> uuid, new_incidents |-> <<>>,
          diagnostic |-> ""]
    ELSE [raised |-> "", diagnostic |-> ""]
           @@ sync_loop(alerts, t, uuid, now, <<>>)

\* One call of sync_datadog_alerts in which get_active_alerts, if it is
\* called, answers alerts after printing fetch_diagnostic.
SyncStep(alerts, fetch_diagnostic) ==
    /\ UNCHANGED <<storeKind, datadog_client, file, fileState, clock, saving,
                   syncing>>
    /\ \E r \in {sync_datadog_alerts(datadog_client, storeKind, alerts, table,
                                     nextId, Now)} :
         /\ diagnostic' = IF r.diagnostic # "" THEN r.diagnostic
                          ELSE fetch_diagnostic
         /\ r.uuid <= MaxIncidents + 1
         /\ table' = r.table
         /\ nextId' = r.uuid
         /\ mem' = mem \o r.new_incidents
         /\ saved' = [j \in 1..(Len(mem) + Len(r.new_incidents)) |->
                        IF j > Len(mem)
                        THEN <<r.new_incidents[j - Len(mem)]>>
                        ELSE IF j <= Len(saved) THEN saved[j] ELSE None]
         /\ raised' = r.raised

\* a call in which the fetch goes through and answers alerts
SyncWith(alerts) == SyncStep(alerts, "")

\* a call against what list_monitors() does; an exception that comes out
\* of get_active_alerts() comes out of the call
SyncFetch(response) ==
    IF datadog_client = "none"
    THEN SyncStep(<<>>, "")
    ELSE \E fetched \in {get_active_alerts(datadog_client, response)} :
           IF fetched.raised # ""
           THEN /\ raised' = fetched.raised
                /\ diagnostic' = fetched.diagnostic
                /\ UNCHANGED <<storeKind, datadog_client, file, fileState,
                               table, mem, nextId, clock, saved, saving,
                   syncing>>
           ELSE SyncStep(fetched.alerts, fetched.diagnostic)

Sync == \E response \in Responses : SyncFetch(response)

store_find_by_id(incident_id) ==
    IF storeKind = "json"
    THEN json_find_by_id(file, fileState, incident_id, nextId, Now)
    ELSE dynamo_find_by_id(table, incident_id, nextId, Now)

store_find_by_status(status) ==
    IF storeKind = "json"
    THEN json_find_by_status(file, fileState, status, nextId, Now)
    ELSE dynamo_find_by_status(table, status, nextId, Now)

store_find_by_datadog_alert_id(alert_id) ==
    IF storeKind = "json"
    THEN json_find_by_datadog_alert_id(file, fileState, alert_id, nextId, Now)
    ELSE [raised |-> "",
          found |-> dynamo_find_by_datadog_alert_id(table, alert_id, nextId, Now)]

store_load_all ==
    IF storeKind = "json"
    THEN json_load_all(file, fileState, nextId, Now)
    ELSE dynamo_load_all(table, nextId, Now)

\* active incidents without the acknowledged ones
get_active_incidents_detected_only == store_find_by_status("detected")

get_active_incidents ==
    store_find_by_status("detected") \o store_find_by_status("acknowledged")

\* a caller reads an incident back and goes on working with the copy
Load ==
    \E i \in 1..Len(mem) :
      LET found == store_find_by_id(i)
      IN /\ mem' = IF found # None THEN [mem EXCEPT ![i] = found[1]] ELSE mem
         /\ raised' = ""
         /\ diagnostic' = ""
         /\ UNCHANGED <<storeKind, datadog_client, file, fileState, table,
                        nextId, clock, saved, saving, syncing>>

\* Everything a caller can do.
Next == Tick \/ Create \/ Acknowledge \/ Resolve \/ Save \/ Sync \/ Load

Spec == Init /\ [][Next]_vars

\* The Incident entity on its own: no service, no store.
InitIncident == Init /\ storeKind = "json" /\ datadog_client = "none"

NextIncident == Tick \/ Create \/ Acknowledge \/ Resolve

SpecIncident == InitIncident /\ [][NextIncident]_vars

\* A store driven directly, as the store tests drive it, within one clock
\* reading, on the second or off it.
InitStore == Init /\ datadog_client = "none" /\ clock \in {0, 1}

NextStore == Create \/ Acknowledge \/ Resolve \/ Save \/ Load

SpecStore == InitStore /\ [][NextStore]_vars

\* The service within one clock reading: incidents come from alerts only.
NextService == Sync \/ Acknowledge \/ Resolve \/ Save

SpecService == Init /\ [][NextService]_vars

\* Invocation p enters save(mem[i]) on the file store: load_all has
\* answered and the collection is in p's hands.
SaveBegin(p, i) ==
    /\ saving[p] = None
    /\ saving' = [saving EXCEPT ![p] =
                    <<[incidents |-> json_load_all(file, fileState, nextId, Now),
                       incident |-> mem[i]]>>]
    /\ UNCHANGED <<storeKind, datadog_client, file, fileState, table, mem,
                   nextId, clock, saved, raised, diagnostic, syncing>>

\* Invocation p leaves save: the collection it loaded, with its incident
\* put in, replaces the document.
SaveEnd(p) ==
    /\ saving[p] # None
    /\ file' = save_write(saving[p][1].incidents, saving[p][1].incident)
    /\ fileState' = "valid"
    /\ saving' = [saving EXCEPT ![p] = None]
    /\ saved' = [j \in 1..Len(mem) |->
                   IF j = saving[p][1].incident.id
                   THEN <<saving[p][1].incident>>
                   ELSE IF j <= Len(saved) THEN saved[j] ELSE None]
    /\ raised' = ""
    /\ diagnostic' = ""
    /\ UNCHANGED <<storeKind, datadog_client, table, mem, nextId, clock,
                   syncing>>

SaveBegins == \E p \in Invocations, i \in 1..Len(mem) : SaveBegin(p, i)

SaveEnds == \E p \in Invocations : SaveEnd(p)

\* Two invocations saving to the same file-backed store, step by step.
InitRace == Init /\ storeKind = "json" /\ datadog_client = "none"

NextRace == Create \/ Acknowledge \/ SaveBegins \/ SaveEnds

SpecRace == InitRace /\ [][NextRace]_vars

\* a save that puts the incident only if the table holds none for the alert
sync_save_if_absent(t, alert, uuid, now) ==
    IF dynamo_find_by_datadog_alert_id(t, alert.id, uuid, now) # None
    THEN t
    ELSE dynamo_save(t, create_incident_from_alert(alert, uuid, now))

\* the loop body after the check: make the incident and save it
sync_save(t, alert, uuid, now) ==
    dynamo_save(t, create_incident_from_alert(alert, uuid, now))

\* the alert lists two invocations running side by side fetch
RaceAlertLists ==
    {alerts \in AlertLists :
       /\ alerts # <<>>
       /\ \A k \in 1..Len(alerts) : alerts[k] \in {Alert1, Alert2}}

\* Invocation p enters sync_datadog_alerts and has fetched alerts.
SyncBegin(p, alerts) ==
    /\ datadog_client # "none"
    /\ syncing[p] = None
    /\ syncing' = [syncing EXCEPT ![p] = <<[alerts |-> alerts, passed |-> FALSE]>>]
    /\ UNCHANGED <<storeKind, datadog_client, file, fileState, table, mem,
                   nextId, clock, saved, raised, diagnostic, saving>>

\* Invocation p looks its next alert up in the managed table: an alert
\* with an incident is skipped, one without has passed the check.
SyncCheck(p) ==
    /\ syncing[p] # None
    /\ syncing[p][1].alerts # <<>>
    /\ ~syncing[p][1].passed
    /\ syncing' = [syncing EXCEPT ![p] =
                     IF dynamo_find_by_datadog_alert_id(
                          table, Head(syncing[p][1].alerts).id, nextId, Now) # None
                     THEN <<[alerts |-> Tail(syncing[p][1].alerts),
                             passed |-> FALSE]>>
                     ELSE <<[alerts |-> syncing[p][1].alerts,
                             passed |-> TRUE]>>]
    /\ UNCHANGED <<storeKind, datadog_client, file, fileState, table, mem,
                   nextId, clock, saved, raised, diagnostic, saving>>

\* Invocation p makes the incident of the alert that passed and saves it.
SyncSave(p) ==
    /\ syncing[p] # None
    /\ syncing[p][1].passed
    /\ nextId <= MaxIncidents
    /\ table' = sync_save(table, Head(syncing[p][1].alerts), nextId, Now)
    /\ mem' = Append(mem, create_incident_from_alert(
                            Head(syncing[p][1].alerts), nextId, Now))
    /\ saved' = [j \in 1..(Len(mem) + 1) |->
                   IF j > Len(mem) THEN <<mem'[j]>>
                   ELSE IF j <= Len(saved) THEN saved[j] ELSE None]
    /\ nextId' = nextId + 1
    /\ syncing' = [syncing EXCEPT ![p] =
                     <<[alerts |-> Tail(syncing[p][1].alerts), passed |-> FALSE]>>]
    /\ UNCHANGED <<storeKind, datadog_client, file, fileState, clock, raised,
                   diagnostic, saving>>

\* Invocation p has gone through its alerts and returns.
SyncReturn(p) ==
    /\ syncing[p] # None
    /\ syncing[p][1].alerts = <<>>
    /\ syncing' = [syncing EXCEPT ![p] = None]
    /\ raised' = ""
    /\ diagnostic' = ""
    /\ UNCHANGED <<storeKind, datadog_client, file, fileState, table, mem,
                   nextId, clock, saved, saving>>

SyncBegins == \E p \in Invocations, alerts \in RaceAlertLists : SyncBegin(p, alerts)

SyncChecks == \E p \in Invocations : SyncCheck(p)

SyncSaves == \E p \in Invocations : SyncSave(p)

SyncReturns == \E p \in Invocations : SyncReturn(p)

\* Two invocations syncing against the same managed table, step by step.
InitRaceSync == Init /\ storeKind = "dynamodb" /\ datadog_client = "mock"

NextRaceSync == SyncBegins \/ SyncChecks \/ SyncSaves \/ SyncReturns

SpecRaceSync == InitRaceSync /\ [][NextRaceSync]_vars

\* incidents.json is damaged from outside: it no longer parses as JSON
Corrupt ==
    /\ storeKind = "json"
    /\ fileState # "malformed"
    /\ fileState' = "malformed"
    /\ UNCHANGED <<storeKind, datadog_client, file, table, mem, nextId, clock,
                   saved, raised, diagnostic, saving, syncing>>

\* The file-backed store with a document that can be damaged.
InitCorrupt == Init /\ storeKind = "json" /\ datadog_client = "none"

NextCorrupt == Create \/ Acknowledge \/ Resolve \/ Save \/ Corrupt

SpecCorrupt == InitCorrupt /\ [][NextCorrupt]_vars

\* a loop that swallows the failed save and goes on
RECURSIVE sync_loop_failing_swallowed(_, _, _, _, _, _)
sync_loop_failing_swallowed(alerts, t, uuid, now, new_incidents, failing) ==
    IF alerts = <<>>
    THEN [raised |-> "", table |-> t, uuid |-> uuid,
          new_incidents |-> new_incidents]
    ELSE LET alert == Head(alerts)
             existing == dynamo_find_by_datadog_alert_id(t, alert.id, uuid, now)
             incident == create_incident_from_alert(alert, uuid, now)
         IN IF existing # None
            THEN sync_loop_failing_swallowed(Tail(alerts), t, uuid, now,
                                             new_incidents, failing)
            ELSE IF failing = 1
            THEN sync_loop_failing_swallowed(Tail(alerts), t, uuid, now,
                                             new_incidents, 0)
            ELSE sync_loop_failing_swallowed(
                   Tail(alerts), dynamo_save(t, incident), uuid + 1, now,
                   Append(new_incidents, incident),
                   IF failing = 0 THEN 0 ELSE failing - 1)

\* The for loop of sync_datadog_alerts over a managed table whose put_item
\* raises ClientError in the save call number failing (0: in none).  save
\* turns it into Exception, which leaves the loop and the call;
\* new_incidents are then the incidents saved before, which the call does
\* not return.
RECURSIVE sync_loop_failing(_, _, _, _, _, _)
sync_loop_failing(alerts, t, uuid, now, new_incidents, failing) ==
    IF alerts = <<>>
    THEN [raised |-> "", table |-> t, uuid |-> uuid,
          new_incidents |-> new_incidents]
    ELSE LET alert == Head(alerts)
             existing == dynamo_find_by_datadog_alert_id(t, alert.id, uuid, now)
             incident == create_incident_from_alert(alert, uuid, now)
         IN IF existing # None
            THEN sync_loop_failing(Tail(alerts), t, uuid, now, new_incidents,
                                   failing)
            ELSE IF failing = 1
            THEN [raised |-> "Exception", table |-> t, uuid |-> uuid,
                  new_incidents |-> new_incidents]
            ELSE sync_loop_failing(
                   Tail(alerts), dynamo_save(t, incident), uuid + 1, now,
                   Append(new_incidents, incident),
                   IF failing = 0 THEN 0 ELSE failing - 1)

\* A sync against the managed table in which the save call number failing
\* fails.  The incidents saved before it are in the table; callers get them
\* from there, and mem holds them as they read back.
SyncFailingWith(alerts, failing) ==
    /\ storeKind = "dynamodb"
    /\ datadog_client # "none"
    /\ UNCHANGED <<storeKind, datadog_client, file, fileState, clock, saving,
                   syncing>>
    /\ \E r \in {sync_loop_failing(alerts, table, nextId, Now, <<>>, failing)} :
         /\ r.uuid <= MaxIncidents + 1
         /\ table' = r.table
         /\ nextId' = r.uuid
         /\ mem' = mem \o r.new_incidents
         /\ saved' = [j \in 1..(Len(mem) + Len(r.new_incidents)) |->
                        IF j > Len(mem)
                        THEN <<r.new_incidents[j - Len(mem)]>>
                        ELSE IF j <= Len(saved) THEN saved[j] ELSE None]
         /\ raised' = r.raised
         /\ diagnostic' = ""

SyncFailing ==
    \E alerts \in AlertLists, failing \in 1..MaxAlerts :
      SyncFailingWith(alerts, failing)

\* The service over a managed table whose writes can fail.
InitFailing == Init /\ storeKind = "dynamodb" /\ datadog_client = "mock"

NextFailing == Sync \/ SyncFailing \/ Acknowledge \/ Save

SpecFailing == InitFailing /\ [][NextFailing]_vars

\* the same incident saved to a file-backed and to a managed-table store
SaveBothAt(i) ==
    /\ file' = json_save(file, fileState, mem[i], nextId, Now)
    /\ fileState' = "valid"
    /\ table' = dynamo_save(table, mem[i])
    /\ saved' = [j \in 1..Len(mem) |->
                   IF j = i THEN <<mem[i]>>
                   ELSE IF j <= Len(saved) THEN saved[j] ELSE None]
    /\ raised' = ""
    /\ diagnostic' = ""
    /\ UNCHANGED <<storeKind, datadog_client, mem, nextId, clock, saving,
                   syncing>>

SaveBoth == \E i \in 1..Len(mem) : SaveBothAt(i)

\* The two stores side by side, driven by the same save calls.
InitBoth == Init /\ storeKind = "json" /\ datadog_client = "mock"

NextBoth == Create \/ Acknowledge \/ Resolve \/ SaveBoth

SpecBoth == InitBoth /\ [][NextBoth]_vars

\* The in-scope operations, one call after the other within one clock
\* reading: incidents made by callers and incidents made from alerts.
NextCalls == Create \/ Acknowledge \/ Resolve \/ Save \/ Sync

SpecCalls == Init /\ [][NextCalls]_vars

TypeOK ==
    /\ Len(mem) = nextId - 1
    /\ \A i \in 1..Len(mem) : mem[i].id = i

\* ------------------------------------------------------------- claims

\* C3: over acknowledge and resolve calls, successful or failing, the status
\* of an incident stays as it is or moves detected -> acknowledged,
\* detected -> resolved or acknowledged -> resolved; it never moves back and
\* a resolved incident stays resolved.
C3_StatusOnlyAdvances ==
    [][\A i \in 1..Len(mem) :
         \/ mem'[i].status = mem[i].status
         \/ <<mem[i].status, mem'[i].status>> \in
              {<<"detected", "acknowledged">>, <<"detected", "resolved">>,
               <<"acknowledged", "resolved">>}]_vars

\* all three moves have happened: one incident resolved after an
\* acknowledgement, another resolved directly
C3_Witness ==
    \E i, j \in 1..Len(mem) :
      /\ mem[i].status = "resolved" /\ mem[i].acknowledged_at # None
      /\ mem[j].status = "resolved" /\ mem[j].acknowledged_at = None

\* C4: acknowledge succeeds exactly when the status is "detected"; in any
\* other status it raises ValueError (the InvalidTransition error) and leaves
\* status, assignee and acknowledged_at as they were.
C4_AcknowledgeGuard ==
    [][\A i \in 1..Len(mem) :
         AcknowledgeAt(i) =>
           IF mem[i].status = "detected"
           THEN /\ raised' = ""
                /\ mem'[i].status = "acknowledged"
           ELSE /\ raised' = "ValueError"
                /\ mem'[i].status = mem[i].status
                /\ mem'[i].assignee = mem[i].assignee
                /\ mem'[i].acknowledged_at = mem[i].acknowledged_at]_vars

\* the only incident is acknowledged and the last call raised: a second
\* acknowledge
C4_Witness ==
    /\ Len(mem) = 1
    /\ mem[1].status = "acknowledged"
    /\ mem[1].assignee = Str("John")
    /\ raised = "ValueError"

\* C5: resolve succeeds from "detected" and from "acknowledged" and sets the
\* status to "resolved"; on a resolved incident it raises ValueError and
\* leaves root_cause, resolution_steps and resolved_at as the first resolve
\* set them.
C5_ResolveGuard ==
    [][\A i \in 1..Len(mem), root_cause \in RootCauses :
         ResolveAt(i, root_cause) =>
           IF mem[i].status \in {"detected", "acknowledged"}
           THEN /\ raised' = ""
                /\ mem'[i].status = "resolved"
           ELSE /\ raised' = "ValueError"
                /\ mem'[i].status = "resolved"
                /\ mem'[i].root_cause = mem[i].root_cause
                /\ mem'[i].resolution_steps = mem[i].resolution_steps
                /\ mem'[i].resolved_at = mem[i].resolved_at]_vars

\* the only incident was resolved before the clock moved and a later call on
\* it raised
C5_Witness ==
    /\ Len(mem) = 1
    /\ mem[1].status = "resolved"
    /\ mem[1].root_cause = Str("Fixed")
    /\ mem[1].resolved_at # None
    /\ mem[1].resolved_at # Now
    /\ raised = "ValueError"

\* C9: for every incident reachable by create, acknowledge and resolve,
\* from_dict(to_dict(I)) has I's id, status, severity, tags, detected_at,
\* acknowledged_at and resolved_at; a null timestamp stays null.
C9_RoundTrip ==
    \A i \in 1..Len(mem) :
      LET I == mem[i]
          R == from_dict(to_dict(I), nextId, Now)
      IN /\ R.id = I.id
         /\ R.status = I.status
         /\ R.severity = I.severity
         /\ R.tags = I.tags
         /\ R.detected_at = I.detected_at
         /\ R.acknowledged_at = I.acknowledged_at
         /\ R.resolved_at = I.resolved_at

\* an incident detected on the second, resolved off it, never acknowledged,
\* looked at after the clock has moved on
C9_Witness ==
    \E i \in 1..Len(mem) :
      /\ mem[i].status = "resolved"
      /\ mem[i].acknowledged_at = None
      /\ mem[i].detected_at[2] = 0
      /\ mem[i].resolved_at[2] # 0
      /\ mem[i].detected_at # Now

\* --- the service

AlertIds(alerts) == {alerts[k].id : k \in 1..Len(alerts)}

DistinctIds(alerts) == Cardinality(AlertIds(alerts)) = Len(alerts)

\* the external alert identifiers the stored incidents carry
StoredAlertIds ==
    {store_load_all[j].datadog_alert_id : j \in 1..Len(store_load_all)} \ {None}

\* the first alert of the list with the given identifier
FirstWithId(alerts, id) ==
    alerts[CHOOSE k \in 1..Len(alerts) :
             /\ alerts[k].id = id
             /\ \A l \in 1..(k - 1) : alerts[l].id # id]

\* C1: with a client configured, sync over N alerts (distinct identifiers,
\* none of them stored) raises nothing, returns N new incidents and stores
\* N; a second sync over the same list then returns none and stores none.
C1_SyncTwice ==
    [][\A alerts \in AlertLists :
         ( /\ datadog_client # "none"
           /\ DistinctIds(alerts)
           /\ AlertIds(alerts) \cap StoredAlertIds = {}
           /\ SyncWith(alerts) ) =>
         LET second == sync_datadog_alerts(datadog_client', storeKind', alerts,
                                           table', nextId', Now)
         IN /\ raised' = ""
            /\ Len(mem') = Len(mem) + Len(alerts)
            /\ Len(Stored') = Len(Stored) + Len(alerts)
            /\ second.raised = ""
            /\ second.new_incidents = <<>>
            /\ second.table = table']_vars

\* C2: after any sequence of syncs the store holds at most one incident for
\* each external alert identifier.
C2_OneIncidentPerAlert ==
    \A a, b \in 1..Len(store_load_all) :
      ( /\ a # b
        /\ store_load_all[a].datadog_alert_id # None ) =>
      store_load_all[a].datadog_alert_id # store_load_all[b].datadog_alert_id

\* incidents for two alerts are stored
C2_Witness ==
    /\ Len(store_load_all) = 2
    /\ StoredAlertIds = {Str("alert-001"), Str("alert-002")}

\* the severity the spec gives an alert: a missing state counts as unknown
SpecSeverity(alert) ==
    IF "state" \notin DOMAIN alert THEN 4
    ELSE CASE alert.state = Str("Alert") -> 5
           [] alert.state = Str("Warn") -> 3
           [] alert.state = Str("No Data") -> 2
           [] OTHER -> 4

\* the severity with a missing state counted as "Alert"
AmendedSeverity(alert) ==
    IF "state" \notin DOMAIN alert THEN 5 ELSE SpecSeverity(alert)

\* C6 as claimed: an incident sync creates has severity 5 for "Alert", 3 for
\* "Warn", 2 for "No Data" and 4 for an unrecognized or a missing state.
C6_SeverityAsClaimed ==
    [][\A alerts \in AlertLists :
         (Len(mem') > Len(mem) /\ SyncWith(alerts)) =>
           \A k \in (Len(mem) + 1)..Len(mem') :
             mem'[k].severity =
               SpecSeverity(FirstWithId(alerts, mem'[k].datadog_alert_id))]_vars

\* C6 amended: an incident sync creates has severity 5 for "Alert", 3 for
\* "Warn", 2 for "No Data", 4 for an unrecognized state, and 5 for an alert
\* with no state field.
C6_SeverityAmended ==
    [][\A alerts \in AlertLists :
         (Len(mem') > Len(mem) /\ SyncWith(alerts)) =>
           \A k \in (Len(mem) + 1)..Len(mem') :
             mem'[k].severity =
               AmendedSeverity(FirstWithId(alerts, mem'[k].datadog_alert_id))]_vars

\* incidents made from the alert without a state and from the "Warn" alert
C6_Witness ==
    \E i, j \in 1..Len(mem) :
      /\ mem[i].title = Str("Pool Exhausted") /\ mem[i].severity = 5
      /\ mem[j].title = Str("CPU recovering") /\ mem[j].severity = 3

\* the incidents callers saved, as last saved
SavedIds == {i \in 1..Len(saved) : saved[i] # None}

ActiveStatuses == {"detected", "acknowledged"}

\* C7: get_active_incidents returns exactly the stored incidents that are
\* detected or acknowledged, each once, and no resolved one.
C7_ActiveExact ==
    LET active == get_active_incidents
    IN /\ \A k \in 1..Len(active) :
            /\ active[k].status \in ActiveStatuses
            /\ active[k].id \in SavedIds
            /\ active[k].status = saved[active[k].id][1].status
       /\ \A i \in SavedIds :
            Cardinality({k \in 1..Len(active) : active[k].id = i}) =
              IF saved[i][1].status \in ActiveStatuses THEN 1 ELSE 0

\* two synced incidents, one saved resolved and one saved acknowledged: one
\* active incident is left, the acknowledged one
C7_Witness ==
    /\ Len(store_load_all) = 2
    /\ Len(get_active_incidents) = 1
    /\ get_active_incidents[1].status = "acknowledged"
    /\ get_active_incidents[1].source = Str("datadog")

\* what sync leaves alone
C10_Kept ==
    /\ Len(Stored') >= Len(Stored)
    /\ \A j \in 1..Len(Stored) : Stored'[j] = Stored[j]
    /\ \A k \in (Len(mem) + 1)..Len(mem') :
         mem'[k].datadog_alert_id \notin StoredAlertIds

\* C10: every step of sync leaves every stored incident as it is, also one
\* whose alert has changed or that is resolved, and creates no incident for an
\* alert whose identifier a stored incident carries.
C10_SyncKeepsStored == [][C10_Kept \/ ~Sync]_vars

\* the incident of alert-001 is stored resolved under the name the alert had
\* first, beside an incident of another alert
C10_Witness ==
    /\ Len(store_load_all) = 2
    /\ \E j \in 1..2 :
         /\ store_load_all[j].datadog_alert_id = Str("alert-001")
         /\ store_load_all[j].status = "resolved"
         /\ store_load_all[j].title = Str("High CPU Usage")

\* --- the stores

\* what the managed table hands back for an incident: "" read as None
Nulled(inc) ==
    LET U(v) == IF v = EmptyStr THEN None ELSE v
    IN [inc EXCEPT !.title = U(@), !.description = U(@), !.source = U(@),
                   !.datadog_alert_id = U(@), !.assignee = U(@),
                   !.root_cause = U(@)]

StoredIds == {Stored[j].id : j \in 1..Len(Stored)}

\* one record per identifier, and find_by_id answers what was last saved
C8_StoreKeyed ==
    /\ Cardinality(StoredIds) = Len(Stored)
    /\ \A i \in 1..Len(mem) :
         IF i \in SavedIds
         THEN /\ store_find_by_id(i) # None
              /\ store_find_by_id(i)[1] =
                   IF storeKind = "dynamodb" THEN Nulled(saved[i][1])
                   ELSE saved[i][1]
         ELSE store_find_by_id(i) = None

C11_FetchFailure ==
    [][\A response \in {r \in Responses : ~r.ok} :
         (datadog_client = "datadog" /\ SyncFetch(response)) =>
           /\ raised' = ""
           /\ mem' = mem
           /\ file' = file /\ fileState' = fileState /\ table' = table]_vars

\* the fetch has just failed over a store that holds two incidents, one of
\* them made from an alert
C11_Witness ==
    /\ diagnostic = "Error fetching alerts"
    /\ raised = ""
    /\ Len(Stored) = 2
    /\ \E j \in 1..2 : Stored[j].source = Str("datadog")

\* what a sync without a client leaves behind
C12_Nothing ==
    /\ raised' = ""
    /\ mem' = mem
    /\ file' = file /\ fileState' = fileState /\ table' = table
    /\ diagnostic' = "No Datadog client configured"

\* C12: without a client sync_datadog_alerts raises nothing, returns no
\* incident, prints its diagnostic and leaves both stores as they were; on
\* the file store, where a lookup would raise, it does not raise either.
C12_NoClient == [][C12_Nothing \/ datadog_client # "none" \/ ~Sync]_vars

\* a sync without a client has just run over a store that holds a resolved
\* incident
C12_Witness ==
    /\ datadog_client = "none"
    /\ diagnostic = "No Datadog client configured"
    /\ Len(Stored) = 2
    /\ Stored[1].status = "resolved"

\* the identifiers callers look up: two that alerts carry and one that
\* none does
AlertIdArgs == {Str("alert-001"), Str("alert-002"), Str("alert-404")}

\* C13: on either store and whatever it holds, find_by_datadog_alert_id
\* raises nothing, answers not-found for an identifier no stored incident
\* carries and answers an incident carrying the identifier otherwise.
C13_FindByAlertId ==
    \A alert_id \in AlertIdArgs :
      LET r == store_find_by_datadog_alert_id(alert_id)
      IN /\ r.raised = ""
         /\ IF alert_id \in StoredAlertIds
            THEN /\ r.found # None
                 /\ r.found[1].datadog_alert_id = alert_id
            ELSE r.found = None

\* --- construction

\* C14: the incident a constructor call produces has status "detected", no
\* acknowledged_at and no resolved_at, a detected_at, and an identifier no
\* incident made before it carries.
C14_Create ==
    [][Create =>
         LET new == mem'[Len(mem')]
         IN /\ Len(mem') = Len(mem) + 1
            /\ new.status = "detected"
            /\ new.acknowledged_at = None
            /\ new.resolved_at = None
            /\ new.detected_at # None
            /\ new.detected_at = Now
            /\ \A j \in 1..Len(mem) : mem[j].id # new.id]_vars

\* a second incident has been made after the first was resolved and the
\* clock moved
C14_Witness ==
    /\ Len(mem) = 2
    /\ mem[1].status = "resolved"
    /\ mem[2].status = "detected"
    /\ mem[2].detected_at # mem[1].detected_at
    /\ mem[2].id # mem[1].id

\* --- order and mapping

\* the alerts of the list, in order, whose identifier is not in seen and
\* not carried by an earlier alert of the list
RECURSIVE NewAlerts(_, _)
NewAlerts(alerts, seen) ==
    IF alerts = <<>> THEN <<>>
    ELSE IF Head(alerts).id \in seen
    THEN NewAlerts(Tail(alerts), seen)
    ELSE <<Head(alerts)>> \o
           NewAlerts(Tail(alerts), seen \cup {Head(alerts).id})

\* C15: with a client configured, a sync over an alert list raises nothing
\* and returns, and appends to the store, one incident for each alert that
\* had no incident, in the order of the list ("Alert" with severity 5,
\* "Warn" with 3); a second sync over the same list returns nothing.
C15_SourceOrder ==
    [][\A alerts \in AlertLists :
         (datadog_client # "none" /\ SyncWith(alerts)) =>
           LET expected == NewAlerts(alerts, StoredAlertIds)
               second == sync_datadog_alerts(datadog_client', storeKind',
                                             alerts, table', nextId', Now)
           IN /\ raised' = ""
              /\ Len(mem') = Len(mem) + Len(expected)
              /\ Len(Stored') = Len(Stored) + Len(expected)
              /\ \A k \in 1..Len(expected) :
                   /\ mem'[Len(mem) + k].datadog_alert_id = expected[k].id
                   /\ Stored'[Len(Stored) + k].id = mem'[Len(mem) + k].id
                   /\ Get(expected[k], "state", None) = Str("Alert") =>
                        mem'[Len(mem) + k].severity = 5
                   /\ Get(expected[k], "state", None) = Str("Warn") =>
                        mem'[Len(mem) + k].severity = 3
              /\ second.raised = ""
              /\ second.new_incidents = <<>>]_vars

\* C16: an incident sync creates from an alert has the alert's name as title
\* ("Unknown Alert" without one), its message as description ("No
\* description" without one), source "datadog", the alert's id as
\* datadog_alert_id, the alert's tags (none when the alert has none) and
\* status "detected".
C16_AlertMapping ==
    [][\A alerts \in AlertLists :
         (Len(mem') > Len(mem) /\ SyncWith(alerts)) =>
           \A k \in (Len(mem) + 1)..Len(mem') :
             LET new == mem'[k]
                 alert == FirstWithId(alerts, new.datadog_alert_id)
             IN /\ new.title = IF "name" \in DOMAIN alert
                               THEN alert.name ELSE Str("Unknown Alert")
                /\ new.description = IF "message" \in DOMAIN alert
                                     THEN alert.message
                                     ELSE Str("No description")
                /\ new.source = Str("datadog")
                /\ new.datadog_alert_id = alert.id
                /\ new.tags = IF "tags" \in DOMAIN alert
                              THEN alert.tags ELSE <<>>
                /\ new.status = "detected"]_vars

\* one incident made from the fixture alert with two tags, one from the
\* alert that has an id and a state only
C16_Witness ==
    \E i, j \in 1..Len(mem) :
      /\ mem[i].title = Str("High CPU Usage")
      /\ mem[i].tags = <<"env:production", "team:backend">>
      /\ mem[j].title = Str("Unknown Alert")
      /\ mem[j].description = Str("No description")
      /\ mem[j].datadog_alert_id = Str("alert-002")
      /\ mem[j].tags = <<>>

\* --- the two stores side by side

Statuses == {"detected", "acknowledged", "resolved"}

\* the two stores answer load_all, find_by_id and find_by_status alike
C17_ReadsAgree ==
    /\ json_load_all(file, fileState, nextId, Now) =
         dynamo_load_all(table, nextId, Now)
    /\ \A i \in 1..MaxIncidents :
         json_find_by_id(file, fileState, i, nextId, Now) =
           dynamo_find_by_id(table, i, nextId, Now)
    /\ \A status \in Statuses :
         json_find_by_status(file, fileState, status, nextId, Now) =
           dynamo_find_by_status(table, status, nextId, Now)

\* C17: after the same save calls the two stores answer load_all,
\* find_by_id, find_by_status and find_by_datadog_alert_id alike, field for
\* field, and a sync against either returns the same incidents.
C17_StoresAgree ==
    /\ C17_ReadsAgree
    /\ \A alert_id \in AlertIdArgs :
         json_find_by_datadog_alert_id(file, fileState, alert_id, nextId, Now) =
           [raised |-> "",
            found |-> dynamo_find_by_datadog_alert_id(table, alert_id,
                                                      nextId, Now)]
    /\ \A alerts \in AlertLists :
         LET onFile == sync_datadog_alerts(datadog_client, "json", alerts,
                                           table, nextId, Now)
             onTable == sync_datadog_alerts(datadog_client, "dynamodb", alerts,
                                            table, nextId, Now)
         IN /\ onFile.raised = onTable.raised
            /\ onFile.new_incidents = onTable.new_incidents

\* --- what stays

\* C18: no call of create, acknowledge, resolve, save or sync takes an
\* incident out of the store: every stored identifier stays stored and the
\* number of stored incidents never goes down.
C18_NeverDeleted ==
    [][/\ Len(Stored') >= Len(Stored)
       /\ \A id \in StoredIds : \E j \in 1..Len(Stored') : Stored'[j].id = id
       /\ Len(file') >= Len(file)
       /\ Len(table') >= Len(table)]_vars

\* the store holds two incidents, the first of them saved again after it
\* was resolved
C18_Witness ==
    /\ Len(Stored) = 2
    /\ Stored[1].status = "resolved"
    /\ Stored[2].status = "detected"
    /\ saved[1] # None
    /\ saved[1][1].status = "resolved"

\* every saved incident reads back, by each of the three reads, under the
\* identifier it was saved with
C19_ReadBack ==
    \A i \in SavedIds :
      LET id == saved[i][1].id
          byStatus == store_find_by_status(saved[i][1].status)
      IN /\ store_find_by_id(id) # None
         /\ store_find_by_id(id)[1].id = id
         /\ \E j \in 1..Len(store_load_all) : store_load_all[j].id = id
         /\ \E j \in 1..Len(byStatus) : byStatus[j].id = id

\* C19: after any acknowledge, resolve, save and read-back every incident
\* still has the identifier the constructor gave it (the i-th incident made
\* was given i), and load_all, find_by_id and find_by_status answer a saved
\* incident under the identifier it was saved with.
C19_IdFixed ==
    /\ \A i \in 1..Len(mem) : mem[i].id = i
    /\ \A i \in SavedIds : saved[i][1].id = i
    /\ C19_ReadBack

\* a caller holds the copy read back from the managed table of an incident
\* that was saved resolved with root_cause ""
C19_Witness ==
    \E i \in SavedIds :
      /\ saved[i][1].root_cause = EmptyStr
      /\ mem[i].root_cause = None
      /\ mem[i].status = "resolved"
      /\ mem[i].id = saved[i][1].id

\* --- overlapping saves

FileIds == {file[j].id : j \in 1..Len(file)}

\* C20: the write that ends a save on the file store leaves in the document
\* the incidents the invocation loaded when it began and the one it saves,
\* and no other: what another invocation wrote in between is gone, the last
\* writer wins.
C20_LastWriterWins ==
    [][\A p \in Invocations :
         SaveEnd(p) =>
           FileIds' = {saving[p][1].incidents[j].id :
                         j \in 1..Len(saving[p][1].incidents)}
                        \cup {saving[p][1].incident.id}]_vars

\* both invocations are through, each has saved its incident, and the
\* document holds only the second
C20_Witness ==
    /\ \A p \in Invocations : saving[p] = None
    /\ SavedIds = {1, 2}
    /\ FileIds = {2}

\* --- overlapping syncs

\* C21: an invocation that has passed the duplicate check saves its
\* incident whatever the table holds by then: the save adds one item
\* carrying the alert's identifier, also when another invocation has stored
\* an incident for that alert since the check.
C21_StaleCheck ==
    [][\A p \in Invocations :
         SyncSave(p) =>
           /\ Len(table') = Len(table) + 1
           /\ table'[Len(table')].datadog_alert_id =
                Head(syncing[p][1].alerts).id]_vars

\* both invocations have returned and the table holds two incidents of
\* alert-001
C21_Witness ==
    /\ \A p \in Invocations : syncing[p] = None
    /\ Len(table) = 2
    /\ table[1].id # table[2].id
    /\ table[1].datadog_alert_id = Str("alert-001")
    /\ table[2].datadog_alert_id = Str("alert-001")

\* --- a damaged document

\* over a malformed document load_all, find_by_id and find_by_status answer
\* nothing
C22_Reads ==
    fileState = "malformed" =>
      /\ store_load_all = <<>>
      /\ \A i \in 1..MaxIncidents : store_find_by_id(i) = None
      /\ \A status \in Statuses : store_find_by_status(status) = <<>>

\* over a malformed document find_by_datadog_alert_id answers not-found
C22_Lookups ==
    fileState = "malformed" =>
      \A alert_id \in AlertIdArgs :
        store_find_by_datadog_alert_id(alert_id) =
          [raised |-> "", found |-> None]

\* the save that follows writes a document holding the saved incident only
C22_NextSave ==
    \A i \in 1..Len(mem) :
      (fileState = "malformed" /\ SaveAt(i)) =>
        /\ fileState' = "valid"
        /\ file' = <<to_dict(mem[i])>>
        /\ raised' = ""

\* what holds of the queries IncidentStore defines, and of save
C22_ReadsAndSave == [][C22_Reads' /\ C22_NextSave]_vars

\* C22: on the file store a malformed document counts as an empty
\* collection: load_all and every find query (find_by_id, find_by_status,
\* find_by_datadog_alert_id) answer empty or not-found and raise nothing,
\* and the next save writes a document holding only the saved incident.
C22_MalformedIsEmpty ==
    [][C22_Reads' /\ C22_Lookups' /\ C22_NextSave]_vars

\* --- the sentinel

\* C23: on the managed table every saved incident reads back, by find_by_id
\* and by load_all, with the value it was saved with in every field, None
\* as None, an empty string as an empty string, an empty list as an empty
\* list.
C23_SentinelRoundTrip ==
    storeKind = "dynamodb" =>
      \A i \in SavedIds :
        /\ store_find_by_id(i) = <<saved[i][1]>>
        /\ \E j \in 1..Len(store_load_all) : store_load_all[j] = saved[i][1]

\* --- a save that fails

\* the alert identifiers of the incidents in a sequence
IncidentAlertIds(incidents) ==
    [j \in 1..Len(incidents) |-> incidents[j].datadog_alert_id]

\* C24: when the save for the k-th new alert of a sync fails, the call
\* raises, the table keeps what it held and the incidents saved for the
\* k-1 new alerts before, and a later sync over the same list creates
\* incidents for exactly the alerts still without one, the k-th first,
\* leaving one incident for each alert of the list.
C24_SaveFailure ==
    [][\A stored \in {StoredAlertIds} :
       \A alerts \in AlertLists :
       \A new \in {NewAlerts(alerts, stored)} :
       \A k \in 1..Len(new) :
         SyncFailingWith(alerts, k) =>
           /\ raised' = "Exception"
           /\ Len(table') = Len(table) + k - 1
           /\ \A j \in 1..Len(table) : table'[j] = table[j]
           /\ \A j \in 1..(k - 1) :
                table'[Len(table) + j].datadog_alert_id = new[j].id
           /\ \A later \in {sync_datadog_alerts(datadog_client', storeKind',
                                                 alerts, table', nextId', Now)} :
                /\ later.raised = ""
                /\ IncidentAlertIds(later.new_incidents) =
                     [j \in 1..(Len(new) - k + 1) |-> new[j + k - 1].id]
                /\ \A id \in AlertIds(alerts) :
                     Cardinality({j \in 1..Len(later.table) :
                                    later.table[j].datadog_alert_id = id}) = 1]_vars

\* a sync has just raised at a save, and the table holds the incident of
\* alert-001 saved before the failure
C24_Witness ==
    /\ raised = "Exception"
    /\ Len(table) = 1
    /\ table[1].datadog_alert_id = Str("alert-001")
    /\ Len(mem) = 1

\* --- what a sync returns

\* a call that returned (raised nothing) added to the store exactly the
\* incidents it returned
C25_Added ==
    \/ raised' # ""
    \/ /\ Len(Stored') = Len(Stored) + (Len(mem') - Len(mem))
       /\ {Stored'[j].id : j \in 1..Len(Stored')} =
            StoredIds \cup {mem'[k].id : k \in (Len(mem) + 1)..Len(mem')}
       /\ \A k \in (Len(mem) + 1)..Len(mem') :
            \A found \in {IF storeKind' = "json"
                          THEN json_find_by_id(file', fileState', mem'[k].id,
                                               nextId', Now)
                          ELSE dynamo_find_by_id(table', mem'[k].id,
                                                 nextId', Now)} :
              /\ found # None
              /\ found[1].id = mem'[k].id
              /\ found[1].status = "detected"

\* C25: a sync that completes has added to the store exactly the incidents
\* it returns: the stored identifiers are those stored before and those of
\* the returned incidents, the count grows by the number returned, and
\* find_by_id answers each returned incident with status "detected".
C25_ReturnedIsAdded == [][C25_Added \/ ~Sync]_vars

\* a sync has returned the incident of alert-002 into a table that held
\* the resolved incident of alert-001
C25_Witness ==
    /\ raised = ""
    /\ Len(table) = 2
    /\ table[1].status = "resolved"
    /\ table[1].datadog_alert_id = Str("alert-001")
    /\ table[2].datadog_alert_id = Str("alert-002")
    /\ mem[2].status = "detected"
    /\ store_find_by_id(2) # None

\* --- status and timestamps

\* status and timestamps of one incident agree
C26_Agree(inc) ==
    /\ inc.detected_at # None
    /\ inc.status = "detected" =>
         /\ inc.acknowledged_at = None
         /\ inc.resolved_at = None
         /\ inc.assignee = None
    /\ inc.status = "acknowledged" =>
         /\ inc.acknowledged_at # None
         /\ inc.resolved_at = None
    /\ inc.status = "resolved" => inc.resolved_at # None

\* C26: after create and any acknowledge and resolve calls, a detected
\* incident has no acknowledged_at, resolved_at or assignee, an
\* acknowledged one has acknowledged_at and no resolved_at, a resolved one
\* has resolved_at, and has acknowledged_at exactly when it was
\* acknowledged before it was resolved; detected_at is always set.
C26_StatusAndTimestamps ==
    [][\A i \in 1..Len(mem') :
         /\ C26_Agree(mem'[i])
         /\ ( /\ i <= Len(mem)
              /\ mem'[i].status = "resolved"
              /\ mem[i].status # "resolved" ) =>
              (mem'[i].acknowledged_at # None <=>
                 mem[i].status = "acknowledged")
         /\ ( /\ i <= Len(mem)
              /\ mem[i].status = "resolved" ) =>
              mem'[i].acknowledged_at = mem[i].acknowledged_at]_vars

\* one incident resolved a tick after it was acknowledged, beside one that
\* is acknowledged
C26_Witness ==
    /\ Len(mem) = 2
    /\ mem[1].status = "resolved"
    /\ mem[1].acknowledged_at # None
    /\ mem[1].resolved_at # mem[1].acknowledged_at
    /\ mem[2].status = "acknowledged"
    /\ mem[2].resolved_at = None

====
